---- MODULE Spec2Model ----
(***************************************************************************)
(* Model of utils/adapter.go of mcp-link: the tool-name sanitizer, the     *)
(* request dispatcher returned by NewToolHandler and the schema translator *)
(* of NewMCPFromCustomParser.                                              *)
(*                                                                         *)
(* Go strings are modelled as sequences of one-character strings, so that  *)
(* strings.Contains, strings.ReplaceAll and the trimming functions are     *)
(* computed the way the library computes them.                             *)
(***************************************************************************)
EXTENDS Integers, Sequences, FiniteSets, TLC

VARIABLES
    sanPc,      \* sanitizer run: "in" | "once" | "twice"
    sanIn,      \* the string handed to sanitizeToolName
    sanOut,     \* sanitizeToolName(sanIn), <<>> before the call
    sanOut2,    \* sanitizeToolName(sanOut), <<>> before the call
    trPc,       \* translator: "idle", "parsed" (descriptor at hand), "added"
    trApi,      \* the operation descriptor of the loop iteration
    trOrder,    \* the order in which the iteration ranged over the body maps
    trTool,     \* the tool the iteration registered
    method,     \* captured by NewToolHandler: the HTTP method
    url,        \* captured by NewToolHandler: baseURL + api.Path
    extraHeaders, \* captured by NewToolHandler: the static header map
    hPc,        \* where the invocation of the handler stands
    callArgs,   \* the arguments as the caller passed them: top-level map and nested maps
    params,     \* request.Params.Arguments, the live top-level map
    heap,       \* the live maps behind map references: nested argument maps and make()
    pathParams, \* which map of the heap pathParams refers to
    queryParams,
    bodyParams,
    pathTodo,   \* keys the range over pathParams has not visited yet
    finalURL,
    reqBody,    \* the io.Reader: nil, or the marshalled bytes
    req,        \* the *http.Request under construction
    hdrTodo,    \* keys the range over extraHeaders has not visited yet
    doCalls,    \* calls of client.Do made by this invocation
    resp,       \* the response client.Do returned
    result      \* what the handler returned

sanVars == <<sanPc, sanIn, sanOut, sanOut2>>
trVars == <<trPc, trApi, trOrder, trTool>>
cfgVars == <<method, url, extraHeaders>>
callVars == <<hPc, callArgs, params, heap, pathParams, queryParams, bodyParams,
              pathTodo, finalURL, reqBody, req, hdrTodo, doCalls, resp, result>>
hVars == <<cfgVars, callVars>>
\* what an invocation of the handler never assigns
others == <<sanVars, trVars, cfgVars>>
vars == <<sanVars, trVars, hVars>>

\* ------------------------------------------------------------------
\* Bounds of the model
\* ------------------------------------------------------------------

\* longest name handed to sanitizeToolName
MaxNameLen == 3

\* longest parameter list of an operation descriptor
MaxParams == 2

\* ------------------------------------------------------------------
\* package strings
\* ------------------------------------------------------------------

\* s[i..] starts with p
MatchAt(s, p, i) ==
    /\ i + Len(p) - 1 <= Len(s)
    /\ \A k \in 1..Len(p) : s[i + k - 1] = p[k]

\* strings.Contains(s, p)
Contains(s, p) == \E i \in 1..(Len(s) - Len(p) + 1) : MatchAt(s, p, i)

\* strings.HasPrefix(s, p)
HasPrefix(s, p) == MatchAt(s, p, 1)

\* strings.ReplaceAll(s, old, new) for a non-empty old: the non-overlapping
\* occurrences of old, found left to right, are replaced by new.
RECURSIVE ReplaceFrom(_, _, _, _)
ReplaceFrom(s, old, new, i) ==
    IF i > Len(s) THEN <<>>
    ELSE IF MatchAt(s, old, i)
         THEN new \o ReplaceFrom(s, old, new, i + Len(old))
         ELSE <<s[i]>> \o ReplaceFrom(s, old, new, i + 1)

ReplaceAll(s, old, new) == ReplaceFrom(s, old, new, 1)

\* strings.TrimSuffix(s, p): s without one trailing p
TrimSuffix(s, p) ==
    IF Len(s) >= Len(p) /\ MatchAt(s, p, Len(s) - Len(p) + 1)
    THEN SubSeq(s, 1, Len(s) - Len(p))
    ELSE s

\* strings.TrimPrefix(s, p): s without one leading p
TrimPrefix(s, p) ==
    IF HasPrefix(s, p) THEN SubSeq(s, Len(p) + 1, Len(s)) ELSE s

\* the ASCII letters, as unicode.ToLower maps them
UpperLetters == <<"A","B","C","D","E","F","G","H","I","J","K","L","M",
                  "N","O","P","Q","R","S","T","U","V","W","X","Y","Z">>
LowerLetters == <<"a","b","c","d","e","f","g","h","i","j","k","l","m",
                  "n","o","p","q","r","s","t","u","v","w","x","y","z">>
Digits == <<"0","1","2","3","4","5","6","7","8","9">>

Range(f) == {f[i] : i \in DOMAIN f}

UpperSet == Range(UpperLetters)
LowerSet == Range(LowerLetters)
DigitSet == Range(Digits)

LowerChar(c) ==
    IF c \in UpperSet
    THEN LowerLetters[CHOOSE i \in 1..26 : UpperLetters[i] = c]
    ELSE c

\* A string is the sequence of its bytes.  The byte 0x60 and the bytes that
\* are not printable ASCII are written by their hexadecimal name.
Backquote == "\\x60"

\* the bytes 0x20 to 0x7E
Printable ==
    <<" ", "!", "\"", "#", "$", "%", "&", "'", "(", ")", "*", "+", ",", "-", ".", "/">>
    \o Digits \o <<":", ";", "<", "=", ">", "?", "@">>
    \o UpperLetters \o <<"[", "\\", "]", "^", "_", Backquote>>
    \o LowerLetters \o <<"{", "|", "}", "~">>

HexUpper == Digits \o <<"A", "B", "C", "D", "E", "F">>
HexLower == Digits \o <<"a", "b", "c", "d", "e", "f">>

\* the byte of a code
Chr(code) ==
    IF code \in 32..126 THEN Printable[code - 31]
    ELSE CASE code = 9  -> "\t"
           [] code = 10 -> "\n"
           [] code = 13 -> "\r"
           [] OTHER     -> "\\x" \o HexUpper[(code \div 16) + 1]
                                 \o HexUpper[(code % 16) + 1]

Bytes == [code \in 0..255 |-> Chr(code)]

\* the code of a byte
Codes == [c \in {Bytes[code] : code \in 0..255} |->
             CHOOSE code \in 0..255 : Bytes[code] = c]

Ord(c) == Codes[c]

\* ------------------------------------------------------------------
\* unicode/utf8 and unicode
\* ------------------------------------------------------------------

RuneError == 65533

\* the byte at i exists and its code lies in lo..hi
ByteIn(s, i, lo, hi) == i <= Len(s) /\ Ord(s[i]) \in lo..hi

\* utf8.DecodeRuneInString(s[i:]): the rune and its width; a byte that starts
\* no valid encoding gives RuneError and width 1
DecodeRune(s, i) ==
    LET b0 == Ord(s[i])
        b1 == Ord(s[i + 1]) - 128
        b2 == Ord(s[i + 2]) - 128
        b3 == Ord(s[i + 3]) - 128
    IN  IF b0 < 128 THEN [r |-> b0, size |-> 1]
        ELSE IF b0 \in 194..223 /\ ByteIn(s, i + 1, 128, 191)
        THEN [r |-> (b0 - 192) * 64 + b1, size |-> 2]
        ELSE IF /\ b0 \in 224..239
                /\ ByteIn(s, i + 1, IF b0 = 224 THEN 160 ELSE 128,
                                    IF b0 = 237 THEN 159 ELSE 191)
                /\ ByteIn(s, i + 2, 128, 191)
        THEN [r |-> (b0 - 224) * 4096 + b1 * 64 + b2, size |-> 3]
        ELSE IF /\ b0 \in 240..244
                /\ ByteIn(s, i + 1, IF b0 = 240 THEN 144 ELSE 128,
                                    IF b0 = 244 THEN 143 ELSE 191)
                /\ ByteIn(s, i + 2, 128, 191)
                /\ ByteIn(s, i + 3, 128, 191)
        THEN [r |-> (b0 - 240) * 262144 + b1 * 4096 + b2 * 64 + b3, size |-> 4]
        ELSE [r |-> RuneError, size |-> 1]

\* utf8.AppendRune: the encoding of a rune
EncodeRune(r) ==
    IF r < 128 THEN <<Bytes[r]>>
    ELSE IF r < 2048
    THEN <<Bytes[192 + (r \div 64)], Bytes[128 + (r % 64)]>>
    ELSE IF r < 65536
    THEN <<Bytes[224 + (r \div 4096)], Bytes[128 + ((r \div 64) % 64)],
           Bytes[128 + (r % 64)]>>
    ELSE <<Bytes[240 + (r \div 262144)], Bytes[128 + ((r \div 4096) % 64)],
           Bytes[128 + ((r \div 64) % 64)], Bytes[128 + (r % 64)]>>

\* the lower-case mappings of the runes above ASCII (unicode.CaseRanges):
\* <<lo, hi, stride, delta>> maps every stride-th rune of lo..hi, counted
\* from lo, to the rune delta further on
LowerCaseRanges ==
    <<<<192, 214, 1, 32>>, <<216, 222, 1, 32>>, <<256, 302, 2, 1>>,
      <<304, 304, 1, -199>>, <<306, 310, 2, 1>>, <<313, 327, 2, 1>>,
      <<330, 374, 2, 1>>, <<376, 376, 1, -121>>, <<377, 381, 2, 1>>,
      <<385, 385, 1, 210>>, <<386, 388, 2, 1>>, <<390, 390, 1, 206>>,
      <<391, 391, 1, 1>>, <<393, 394, 1, 205>>, <<395, 395, 1, 1>>,
      <<398, 398, 1, 79>>, <<399, 399, 1, 202>>, <<400, 400, 1, 203>>,
      <<401, 401, 1, 1>>, <<403, 403, 1, 205>>, <<404, 404, 1, 207>>,
      <<406, 406, 1, 211>>, <<407, 407, 1, 209>>, <<408, 408, 1, 1>>,
      <<412, 412, 1, 211>>, <<413, 413, 1, 213>>, <<415, 415, 1, 214>>,
      <<416, 420, 2, 1>>, <<422, 422, 1, 218>>, <<423, 423, 1, 1>>,
      <<425, 425, 1, 218>>, <<428, 428, 1, 1>>, <<430, 430, 1, 218>>,
      <<431, 431, 1, 1>>, <<433, 434, 1, 217>>, <<435, 437, 2, 1>>,
      <<439, 439, 1, 219>>, <<440, 440, 1, 1>>, <<444, 444, 1, 1>>,
      <<452, 452, 1, 2>>, <<453, 453, 1, 1>>, <<455, 455, 1, 2>>,
      <<456, 456, 1, 1>>, <<458, 458, 1, 2>>, <<459, 475, 2, 1>>,
      <<478, 494, 2, 1>>, <<497, 497, 1, 2>>, <<498, 500, 2, 1>>,
      <<502, 502, 1, -97>>, <<503, 503, 1, -56>>, <<504, 542, 2, 1>>,
      <<544, 544, 1, -130>>, <<546, 562, 2, 1>>, <<570, 570, 1, 10795>>,
      <<571, 571, 1, 1>>, <<573, 573, 1, -163>>, <<574, 574, 1, 10792>>,
      <<577, 577, 1, 1>>, <<579, 579, 1, -195>>, <<580, 580, 1, 69>>,
      <<581, 581, 1, 71>>, <<582, 590, 2, 1>>, <<880, 882, 2, 1>>,
      <<886, 886, 1, 1>>, <<895, 895, 1, 116>>, <<902, 902, 1, 38>>,
      <<904, 906, 1, 37>>, <<908, 908, 1, 64>>, <<910, 911, 1, 63>>,
      <<913, 929, 1, 32>>, <<931, 939, 1, 32>>, <<975, 975, 1, 8>>,
      <<984, 1006, 2, 1>>, <<1012, 1012, 1, -60>>, <<1015, 1015, 1, 1>>,
      <<1017, 1017, 1, -7>>, <<1018, 1018, 1, 1>>, <<1021, 1023, 1, -130>>,
      <<1024, 1039, 1, 80>>, <<1040, 1071, 1, 32>>, <<1120, 1152, 2, 1>>,
      <<1162, 1214, 2, 1>>, <<1216, 1216, 1, 15>>, <<1217, 1229, 2, 1>>,
      <<1232, 1326, 2, 1>>, <<1329, 1366, 1, 48>>, <<4256, 4293, 1, 7264>>,
      <<4295, 4295, 1, 7264>>, <<4301, 4301, 1, 7264>>,
      <<5024, 5103, 1, 38864>>, <<5104, 5109, 1, 8>>, <<7312, 7354, 1, -3008>>,
      <<7357, 7359, 1, -3008>>, <<7680, 7828, 2, 1>>, <<7838, 7838, 1, -7615>>,
      <<7840, 7934, 2, 1>>, <<7944, 7951, 1, -8>>, <<7960, 7965, 1, -8>>,
      <<7976, 7983, 1, -8>>, <<7992, 7999, 1, -8>>, <<8008, 8013, 1, -8>>,
      <<8025, 8031, 2, -8>>, <<8040, 8047, 1, -8>>, <<8072, 8079, 1, -8>>,
      <<8088, 8095, 1, -8>>, <<8104, 8111, 1, -8>>, <<8120, 8121, 1, -8>>,
      <<8122, 8123, 1, -74>>, <<8124, 8124, 1, -9>>, <<8136, 8139, 1, -86>>,
      <<8140, 8140, 1, -9>>, <<8152, 8153, 1, -8>>, <<8154, 8155, 1, -100>>,
      <<8168, 8169, 1, -8>>, <<8170, 8171, 1, -112>>, <<8172, 8172, 1, -7>>,
      <<8184, 8185, 1, -128>>, <<8186, 8187, 1, -126>>, <<8188, 8188, 1, -9>>,
      <<8486, 8486, 1, -7517>>, <<8490, 8490, 1, -8383>>,
      <<8491, 8491, 1, -8262>>, <<8498, 8498, 1, 28>>, <<8544, 8559, 1, 16>>,
      <<8579, 8579, 1, 1>>, <<9398, 9423, 1, 26>>, <<11264, 11311, 1, 48>>,
      <<11360, 11360, 1, 1>>, <<11362, 11362, 1, -10743>>,
      <<11363, 11363, 1, -3814>>, <<11364, 11364, 1, -10727>>,
      <<11367, 11371, 2, 1>>, <<11373, 11373, 1, -10780>>,
      <<11374, 11374, 1, -10749>>, <<11375, 11375, 1, -10783>>,
      <<11376, 11376, 1, -10782>>, <<11378, 11378, 1, 1>>,
      <<11381, 11381, 1, 1>>, <<11390, 11391, 1, -10815>>,
      <<11392, 11490, 2, 1>>, <<11499, 11501, 2, 1>>, <<11506, 11506, 1, 1>>,
      <<42560, 42604, 2, 1>>, <<42624, 42650, 2, 1>>, <<42786, 42798, 2, 1>>,
      <<42802, 42862, 2, 1>>, <<42873, 42875, 2, 1>>,
      <<42877, 42877, 1, -35332>>, <<42878, 42886, 2, 1>>,
      <<42891, 42891, 1, 1>>, <<42893, 42893, 1, -42280>>,
      <<42896, 42898, 2, 1>>, <<42902, 42920, 2, 1>>,
      <<42922, 42922, 1, -42308>>, <<42923, 42923, 1, -42319>>,
      <<42924, 42924, 1, -42315>>, <<42925, 42925, 1, -42305>>,
      <<42926, 42926, 1, -42308>>, <<42928, 42928, 1, -42258>>,
      <<42929, 42929, 1, -42282>>, <<42930, 42930, 1, -42261>>,
      <<42931, 42931, 1, 928>>, <<42932, 42946, 2, 1>>,
      <<42948, 42948, 1, -48>>, <<42949, 42949, 1, -42307>>,
      <<42950, 42950, 1, -35384>>, <<42951, 42953, 2, 1>>,
      <<42960, 42960, 1, 1>>, <<42966, 42968, 2, 1>>, <<42997, 42997, 1, 1>>,
      <<65313, 65338, 1, 32>>, <<66560, 66599, 1, 40>>,
      <<66736, 66771, 1, 40>>, <<66928, 66938, 1, 39>>,
      <<66940, 66954, 1, 39>>, <<66956, 66962, 1, 39>>,
      <<66964, 66965, 1, 39>>, <<68736, 68786, 1, 64>>,
      <<71840, 71871, 1, 32>>, <<93760, 93791, 1, 32>>,
      <<125184, 125217, 1, 34>>>>

\* unicode.ToLower(r)
ToLowerRune(r) ==
    IF r < 128
    THEN (IF r \in 65..90 THEN r + 32 ELSE r)
    ELSE IF \E k \in DOMAIN LowerCaseRanges :
               /\ r \in LowerCaseRanges[k][1]..LowerCaseRanges[k][2]
               /\ (r - LowerCaseRanges[k][1]) % LowerCaseRanges[k][3] = 0
    THEN LET k == CHOOSE j \in DOMAIN LowerCaseRanges :
                     /\ r \in LowerCaseRanges[j][1]..LowerCaseRanges[j][2]
                     /\ (r - LowerCaseRanges[j][1]) % LowerCaseRanges[j][3] = 0
         IN  r + LowerCaseRanges[k][4]
    ELSE r

\* strings.Map(unicode.ToLower, s): rune by rune; a byte that is not valid
\* UTF-8 becomes the encoding of RuneError
RECURSIVE MapToLower(_, _)
MapToLower(s, i) ==
    IF i > Len(s) THEN <<>>
    ELSE LET d == DecodeRune(s, i)
         IN  EncodeRune(ToLowerRune(d.r)) \o MapToLower(s, i + d.size)

\* strings.ToLower(s): byte by byte on an ASCII string, rune by rune on any
\* other
ToLower(s) ==
    IF \A i \in 1..Len(s) : Ord(s[i]) < 128
    THEN [i \in 1..Len(s) |-> LowerChar(s[i])]
    ELSE MapToLower(s, 1)

\* ------------------------------------------------------------------
\* sanitizeToolName
\* ------------------------------------------------------------------

\* a single pass instead of the loop: "___" leaves "__"
CollapseOnce(s) == ReplaceAll(s, <<"_", "_">>, <<"_">>)

\* the loop of lines 46-48: replace "__" by "_" until none is left
RECURSIVE CollapseUnderscores(_)
CollapseUnderscores(s) ==
    IF Contains(s, <<"_", "_">>)
    THEN CollapseUnderscores(ReplaceAll(s, <<"_", "_">>, <<"_">>))
    ELSE s

\* lines 34-45: lower-casing and the eleven replacements, in order
ReplaceSpecials(name) ==
    LET s0  == ToLower(name)
        s1  == ReplaceAll(s0, <<" ">>, <<"_">>)
        s2  == ReplaceAll(s1, <<"-">>, <<"_">>)
        s3  == ReplaceAll(s2, <<"/">>, <<"_">>)
        s4  == ReplaceAll(s3, <<".">>, <<"_">>)
        s5  == ReplaceAll(s4, <<"{">>, <<>>)
        s6  == ReplaceAll(s5, <<"}">>, <<>>)
        s7  == ReplaceAll(s6, <<":">>, <<"_">>)
        s8  == ReplaceAll(s7, <<"?">>, <<>>)
        s9  == ReplaceAll(s8, <<"&">>, <<"a", "n", "d">>)
        s10 == ReplaceAll(s9, <<"=">>, <<"_", "e", "q", "_">>)
        s11 == ReplaceAll(s10, <<"%">>, <<"_", "p", "c", "t", "_">>)
    IN  s11

UnnamedTool == <<"u","n","n","a","m","e","d","_","t","o","o","l">>

\* lines 49-50: one trailing and one leading underscore are stripped
TrimUnderscores(s) == TrimPrefix(TrimSuffix(s, <<"_">>), <<"_">>)

sanitizeToolName(name) ==
    LET s == TrimUnderscores(CollapseUnderscores(ReplaceSpecials(name)))
    IN  IF s = <<>> THEN UnnamedTool ELSE s

\* ------------------------------------------------------------------
\* Go maps: functions whose domain is the key set
\* ------------------------------------------------------------------

EmptyMap == [k \in {} |-> k]

MapPut(m, key, val) ==
    [k \in (DOMAIN m) \cup {key} |-> IF k = key THEN val ELSE m[k]]

\* the orders in which a range statement may visit the keys S
Perms(S) == {s \in [1..Cardinality(S) -> S] : Range(s) = S}

\* ------------------------------------------------------------------
\* prefixRequired, isRequiredField
\* ------------------------------------------------------------------

RequiredMarker == <<"[","r","e","q","u","i","r","e","d","]">>

prefixRequired(isRequired, desc) ==
    IF isRequired /\ ~HasPrefix(desc, RequiredMarker)
    THEN RequiredMarker \o <<" ">> \o desc
    ELSE desc

isRequiredField(field, requiredList) ==
    \E i \in 1..Len(requiredList) : requiredList[i] = field

\* ------------------------------------------------------------------
\* NewMCPFromCustomParser: one iteration of the loop over parser.APIs()
\* ------------------------------------------------------------------

PathNamesKey    == <<"p","a","t","h","N","a","m","e","s">>
SearchParamsKey == <<"s","e","a","r","c","h","P","a","r","a","m","s">>
RequestBodyKey  == <<"r","e","q","u","e","s","t","B","o","d","y">>

\* lines 186-204 and 246-264: "type" and "description" always, the five
\* optional schema fields only when the source schema carries them
BuildProp(schema, description) ==
    LET present == {"type", "description"}
                   \cup (IF schema.Enum # "nil" THEN {"enum"} ELSE {})
                   \cup (IF schema.Format # "" THEN {"format"} ELSE {})
                   \cup (IF schema.Default # "nil" THEN {"default"} ELSE {})
                   \cup (IF schema.Items # "nil" THEN {"items"} ELSE {})
                   \cup (IF schema.Properties # "nil" THEN {"properties"} ELSE {})
    IN  [k \in present |->
            CASE k = "type" -> schema.Type
              [] k = "description" -> description
              [] k = "enum" -> schema.Enum
              [] k = "format" -> schema.Format
              [] k = "default" -> schema.Default
              [] k = "items" -> schema.Items
              [] k = "properties" -> schema.Properties]

\* lines 185-218: the loop over api.Parameters, from parameter i on
RECURSIVE ParamLoop(_, _, _)
ParamLoop(parameters, i, acc) ==
    IF i > Len(parameters) THEN acc
    ELSE LET param == parameters[i]
             prop == BuildProp(param.Schema,
                               prefixRequired(param.Required, param.Description))
             next ==
                 IF param.In = "query"
                 THEN [acc EXCEPT
                         !.queryProps = MapPut(@, param.Name, prop),
                         !.requiredQueryParams =
                             IF param.Required THEN Append(@, param.Name) ELSE @]
                 ELSE IF param.In = "path"
                 THEN [acc EXCEPT
                         !.pathProps = MapPut(@, param.Name, prop),
                         !.requiredPathParams =
                             IF param.Required THEN Append(@, param.Name) ELSE @]
                 ELSE acc
         IN  ParamLoop(parameters, i + 1, next)

\* lines 245-269: the loop over the properties of one media type's schema,
\* visited in the order names
RECURSIVE PropLoop(_, _, _, _)
PropLoop(schema, names, i, acc) ==
    IF i > Len(names) THEN acc
    ELSE LET propName == names[i]
             propSchema == schema.Properties[propName]
             prop == BuildProp(propSchema,
                               prefixRequired(isRequiredField(propName, schema.Required),
                                              propSchema.Description))
             next == [acc EXCEPT
                        !.bodyProps = MapPut(@, propName, prop),
                        !.requiredBodyParams =
                            IF isRequiredField(propName, schema.Required)
                            THEN Append(@, propName) ELSE @]
         IN  PropLoop(schema, names, i + 1, next)

\* lines 243-271: the loop over api.RequestBody.Content, visited in the order
\* order.media, each schema's properties in the order order.props[mediaType]
RECURSIVE MediaLoop(_, _, _, _)
MediaLoop(content, order, i, acc) ==
    IF i > Len(order.media) THEN acc
    ELSE LET mediaType == content[order.media[i]]
             next == IF mediaType.Schema.isNil THEN acc
                     ELSE PropLoop(mediaType.Schema,
                                   order.props[order.media[i]], 1, acc)
         IN  MediaLoop(content, order, i + 1, next)

\* mcp.WithObject(name, mcp.Description(d), mcp.Properties(props),
\* func(schema) { schema["required"] = required })
ObjectSchema(description, props, required) ==
    [type |-> "object", description |-> description,
     properties |-> props, required |-> required]

\* line 242: the condition under which the requestBody group is emitted
emitsRequestBody(api) ==
    ~api.RequestBody.isNil /\ Cardinality(DOMAIN api.RequestBody.Content) > 0

\* lines 174-281: the tool registered for api under the server prefix
translateApi(prefix, api, order) ==
    LET byParam == ParamLoop(api.Parameters, 1,
                       [queryProps |-> EmptyMap, requiredQueryParams |-> <<>>,
                        pathProps |-> EmptyMap, requiredPathParams |-> <<>>])
        byBody == IF emitsRequestBody(api)
                  THEN MediaLoop(api.RequestBody.Content, order, 1,
                           [bodyProps |-> EmptyMap, requiredBodyParams |-> <<>>])
                  ELSE [bodyProps |-> EmptyMap, requiredBodyParams |-> <<>>]
        groups == (IF Cardinality(DOMAIN byParam.queryProps) > 0
                   THEN {SearchParamsKey} ELSE {})
                  \cup (IF Cardinality(DOMAIN byParam.pathProps) > 0
                        THEN {PathNamesKey} ELSE {})
                  \cup (IF emitsRequestBody(api) THEN {RequestBodyKey} ELSE {})
    IN  [name |-> sanitizeToolName(prefix \o <<"_">> \o api.OperationID),
         description |-> api.OperationID \o <<" ">> \o api.Summary
                         \o <<" ">> \o api.Description,
         properties |->
            [g \in groups |->
                IF g = SearchParamsKey
                THEN ObjectSchema("url parameters for the tool",
                                  byParam.queryProps, byParam.requiredQueryParams)
                ELSE IF g = PathNamesKey
                THEN ObjectSchema("path parameters for the tool",
                                  byParam.pathProps, byParam.requiredPathParams)
                ELSE ObjectSchema("request body for the tool",
                                  byBody.bodyProps, byBody.requiredBodyParams)]]

\* ------------------------------------------------------------------
\* Values of type interface{} and the maps that hold them
\* ------------------------------------------------------------------

\* a value of the argument structure: a string, nil, a float64 (a whole
\* number n or NaN) or a reference to the map id of the heap
StrV(s)  == [t |-> "string",  s |-> s,    n |-> 0, id |-> ""]
NilV     == [t |-> "nil",     s |-> <<>>, n |-> 0, id |-> ""]
NumV(n)  == [t |-> "float64", s |-> <<>>, n |-> n, id |-> ""]
NaNV     == [t |-> "NaN",     s |-> <<>>, n |-> 0, id |-> ""]
MapV(id) == [t |-> "map",     s |-> <<>>, n |-> 0, id |-> id]

\* the nested maps of the arguments, and the three maps of make()
ArgMapIds == {"pathNames", "searchParams", "requestBody"}
NewMapIds == {"newPath", "newQuery", "newBody"}

\* params[key].(map[string]interface{}) succeeds
IsMapAt(m, key) == key \in DOMAIN m /\ m[key].t = "map"

\* the order of two bytes in sort.Strings
Rank(c) == Ord(c)

RECURSIVE LessFrom(_, _, _)
LessFrom(a, b, i) ==
    IF i > Len(a) THEN i <= Len(b)
    ELSE IF i > Len(b) THEN FALSE
    ELSE IF a[i] = b[i] THEN LessFrom(a, b, i + 1)
    ELSE Rank(a[i]) < Rank(b[i])

\* the keys S in increasing order
RECURSIVE SortedKeys(_)
SortedKeys(S) ==
    IF S = {} THEN <<>>
    ELSE LET least == CHOOSE x \in S : \A y \in S \ {x} : LessFrom(x, y, 1)
         IN  <<least>> \o SortedKeys(S \ {least})

\* the decimal digits of a natural number
RECURSIVE Itoa(_)
Itoa(n) ==
    IF n < 10 THEN <<Digits[n + 1]>>
    ELSE Itoa(n \div 10) \o <<Digits[(n % 10) + 1]>>

\* the digits d without their trailing zeros
RECURSIVE StripZeros(_)
StripZeros(d) ==
    IF Len(d) > 1 /\ d[Len(d)] = "0"
    THEN StripZeros(SubSeq(d, 1, Len(d) - 1))
    ELSE d

Sign(n) == IF n < 0 THEN <<"-">> ELSE <<>>
Abs(n) == IF n < 0 THEN -n ELSE n

\* strconv.FormatFloat(n, 'g', -1, 64) of a whole number, the form fmt gives
\* a float64 under %v: the shortest digits, and the exponent form from the
\* seventh digit on
FormatFloatG(n) ==
    LET d == Itoa(Abs(n))
        exp == Len(d) - 1
        m == StripZeros(d)
    IN  IF exp < 6
        THEN Sign(n) \o d
        ELSE Sign(n) \o <<m[1]>>
             \o (IF Len(m) > 1 THEN <<".">> \o Tail(m) ELSE <<>>)
             \o <<"e", "+">>
             \o (IF exp < 10 THEN <<"0">> ELSE <<>>) \o Itoa(exp)

\* the form encoding/json gives a whole float64 below 1e21: all its digits
FormatFloatJSON(n) == Sign(n) \o Itoa(Abs(n))

\* the map id of heap h is reachable from itself through map references
RECURSIVE CycleFrom(_, _, _)
CycleFrom(h, id, path) ==
    \/ id \in path
    \/ \E k \in DOMAIN h[id] :
          h[id][k].t = "map" /\ CycleFrom(h, h[id][k].id, path \cup {id})

\* ------------------------------------------------------------------
\* fmt.Sprintf("%v", v)
\* ------------------------------------------------------------------

\* fmt follows map references without looking for cycles: on a value that
\* contains itself the recursion does not end and the runtime stops the
\* process with a stack overflow
SprintOverflows(h, v) == v.t = "map" /\ CycleFrom(h, v.id, {})

\* the text of a value that contains no cycle
RECURSIVE Sprint(_, _)
RECURSIVE SprintEntries(_, _, _, _)
SprintEntries(h, id, keys, i) ==
    IF i > Len(keys) THEN <<>>
    ELSE (IF i > 1 THEN <<" ">> ELSE <<>>)
         \o keys[i] \o <<":">> \o Sprint(h, h[id][keys[i]])
         \o SprintEntries(h, id, keys, i + 1)

Sprint(h, v) ==
    CASE v.t = "string"  -> v.s
      [] v.t = "nil"     -> <<"<", "n", "i", "l", ">">>
      [] v.t = "float64" -> FormatFloatG(v.n)
      [] v.t = "NaN"     -> <<"N", "a", "N">>
      [] v.t = "map"     -> <<"m", "a", "p", "[">>
                            \o SprintEntries(h, v.id, SortedKeys(DOMAIN h[v.id]), 1)
                            \o <<"]">>

\* lines 89-97: the text substituted for a path parameter
PathValueText(h, v) ==
    CASE v.t = "string" -> v.s
      [] v.t = "nil"    -> <<>>
      [] OTHER          -> Sprint(h, v)

\* ------------------------------------------------------------------
\* encoding/json
\* ------------------------------------------------------------------

\* json.Marshal returns an error on NaN and on a cycle
RECURSIVE MarshalFails(_, _, _)
MarshalFails(h, id, path) ==
    \/ id \in path
    \/ \E k \in DOMAIN h[id] :
          \/ h[id][k].t = "NaN"
          \/ h[id][k].t = "map" /\ MarshalFails(h, h[id][k].id, path \cup {id})

\* the JSON text json.Marshal gives a string of one byte (HTML escaping on):
\* the quote, the backslash, the control characters and < > & are escaped,
\* any other ASCII byte is copied, and a byte from 0x80 on, which alone is
\* not valid UTF-8, becomes \ufffd
JSONEscapeChar(c) ==
    CASE c = "\""  -> <<"\\", "\"">>
      [] c = "\\"  -> <<"\\", "\\">>
      [] c = "\n"  -> <<"\\", "n">>
      [] c = "\r"  -> <<"\\", "r">>
      [] c = "\t"  -> <<"\\", "t">>
      [] c = Bytes[8]  -> <<"\\", "b">>
      [] c = Bytes[12] -> <<"\\", "f">>
      [] Ord(c) < 32 \/ c \in {"<", ">", "&"} ->
            <<"\\", "u", "0", "0", HexLower[(Ord(c) \div 16) + 1],
              HexLower[(Ord(c) % 16) + 1]>>
      [] Ord(c) >= 128 -> <<"\\", "u", "f", "f", "f", "d">>
      [] OTHER     -> <<c>>

\* appendString: an ASCII byte as above; from 0x80 on rune by rune: invalid
\* UTF-8 becomes \ufffd, U+2028 and U+2029 are escaped, any other rune is
\* copied
RECURSIVE JSONEscapeFrom(_, _)
JSONEscapeFrom(s, i) ==
    IF i > Len(s) THEN <<>>
    ELSE LET d == DecodeRune(s, i)
         IN  (IF d.size = 1 THEN JSONEscapeChar(s[i])
              ELSE IF d.r \in {8232, 8233}
              THEN <<"\\", "u", "2", "0", "2", HexLower[(d.r % 16) + 1]>>
              ELSE SubSeq(s, i, i + d.size - 1))
             \o JSONEscapeFrom(s, i + d.size)

\* a string, a map key included, as JSON
JSONString(s) == <<"\"">> \o JSONEscapeFrom(s, 1) \o <<"\"">>

\* the JSON text of a map: the keys sorted, no white space
RECURSIVE MarshalMap(_, _)
RECURSIVE MarshalEntries(_, _, _, _)
MarshalValue(h, v) ==
    CASE v.t = "string"  -> JSONString(v.s)
      [] v.t = "nil"     -> <<"n", "u", "l", "l">>
      [] v.t = "float64" -> FormatFloatJSON(v.n)
      [] v.t = "map"     -> MarshalMap(h, v.id)

MarshalEntries(h, id, keys, i) ==
    IF i > Len(keys) THEN <<>>
    ELSE (IF i > 1 THEN <<",">> ELSE <<>>)
         \o JSONString(keys[i]) \o <<":">> \o MarshalValue(h, h[id][keys[i]])
         \o MarshalEntries(h, id, keys, i + 1)

MarshalMap(h, id) ==
    <<"{">> \o MarshalEntries(h, id, SortedKeys(DOMAIN h[id]), 1) \o <<"}">>

\* ------------------------------------------------------------------
\* net/url, for URLs that start with http://h followed by nothing or by "/",
\* "?" or "#": the scheme is http and the host is h
\* ------------------------------------------------------------------

BaseURL == <<"h", "t", "t", "p", ":", "/", "/", "h">>

\* strings.Index(s, c) for a byte c, counted from 1; 0 when c is not in s
IndexByte(s, c) ==
    IF \E i \in 1..Len(s) : s[i] = c
    THEN CHOOSE i \in 1..Len(s) : s[i] = c /\ \A j \in 1..(i - 1) : s[j] # c
    ELSE 0

\* strings.Cut(s, c): the text before and after the first c
CutBefore(s, c) == IF IndexByte(s, c) = 0 THEN s ELSE SubSeq(s, 1, IndexByte(s, c) - 1)
CutAfter(s, c) == IF IndexByte(s, c) = 0 THEN <<>> ELSE SubSeq(s, IndexByte(s, c) + 1, Len(s))

\* strings.Count(s, c)
CountByte(s, c) == Cardinality({i \in 1..Len(s) : s[i] = c})

\* strings.Split(s, c)
RECURSIVE Split(_, _)
Split(s, c) ==
    IF IndexByte(s, c) = 0 THEN <<s>>
    ELSE <<CutBefore(s, c)>> \o Split(CutAfter(s, c), c)

HexDigits == Range(HexUpper) \cup Range(HexLower)

IsHex(c) == c \in HexDigits

HexVal(c) == CHOOSE n \in 0..15 : HexUpper[n + 1] = c \/ HexLower[n + 1] = c

\* stringContainsCTLByte
stringContainsCTLByte(s) ==
    \E i \in 1..Len(s) : Ord(s[i]) < 32 \/ Ord(s[i]) = 127

Unreserved == UpperSet \cup LowerSet \cup DigitSet \cup {"-", "_", ".", "~"}
Reserved == {"$", "&", "+", ",", "/", ":", ";", "=", "?", "@"}

\* shouldEscape(c, mode) for the modes encodePath, encodeQueryComponent and
\* encodeFragment
shouldEscape(c, mode) ==
    IF c \in Unreserved THEN FALSE
    ELSE IF c \in Reserved
    THEN CASE mode = "encodePath"           -> c = "?"
           [] mode = "encodeQueryComponent" -> TRUE
           [] mode = "encodeFragment"       -> FALSE
    ELSE IF mode = "encodeFragment" /\ c \in {"!", "(", ")", "*"} THEN FALSE
    ELSE TRUE

\* escape(s, mode): a byte that should be escaped becomes %XX, a space of a
\* query component "+"
EscapeChar(c, mode) ==
    IF ~shouldEscape(c, mode) THEN <<c>>
    ELSE IF c = " " /\ mode = "encodeQueryComponent" THEN <<"+">>
    ELSE <<"%", HexUpper[(Ord(c) \div 16) + 1], HexUpper[(Ord(c) % 16) + 1]>>

RECURSIVE EscapeFrom(_, _, _)
EscapeFrom(s, mode, i) ==
    IF i > Len(s) THEN <<>>
    ELSE EscapeChar(s[i], mode) \o EscapeFrom(s, mode, i + 1)

escape(s, mode) == EscapeFrom(s, mode, 1)

\* unescape(s, mode) returns an error: a "%" that two hex digits do not follow
unescapeFails(s) ==
    \E i \in 1..Len(s) :
        /\ s[i] = "%"
        /\ ~(i + 2 <= Len(s) /\ IsHex(s[i + 1]) /\ IsHex(s[i + 2]))

\* unescape(s, mode) of a string it accepts: %XX is the byte of code XX, and
\* "+" is a space in a query component
RECURSIVE UnescapeFrom(_, _, _)
UnescapeFrom(s, mode, i) ==
    IF i > Len(s) THEN <<>>
    ELSE IF s[i] = "%"
    THEN <<Bytes[16 * HexVal(s[i + 1]) + HexVal(s[i + 2])]>>
         \o UnescapeFrom(s, mode, i + 3)
    ELSE IF s[i] = "+" /\ mode = "encodeQueryComponent"
    THEN <<" ">> \o UnescapeFrom(s, mode, i + 1)
    ELSE <<s[i]>> \o UnescapeFrom(s, mode, i + 1)

unescape(s, mode) == UnescapeFrom(s, mode, 1)

\* validEncoded(s, mode)
validEncoded(s, mode) ==
    \A i \in 1..Len(s) :
        \/ s[i] \in {"!", "$", "&", "'", "(", ")", "*", "+", ",", ";", "=", ":",
                     "@", "[", "]", "%"}
        \/ ~shouldEscape(s[i], mode)

\* the parts of a raw URL that url.Parse separates: the fragment after the
\* first "#"; then the query after the first "?", where a single "?" at the
\* end only sets ForceQuery; the rest after the host is the path
BeforeFragment(u) == CutBefore(u, "#")
RawFragmentOf(u) == CutAfter(u, "#")
AfterHost(u) == SubSeq(BeforeFragment(u), Len(BaseURL) + 1, Len(BeforeFragment(u)))

ForceQueryOf(u) ==
    LET rest == AfterHost(u)
    IN  Len(rest) > 0 /\ rest[Len(rest)] = "?" /\ CountByte(rest, "?") = 1

URLPath(u) == CutBefore(AfterHost(u), "?")
URLRawQuery(u) == CutAfter(AfterHost(u), "?")

\* url.Parse(u) returns an error
ParseFails(u) ==
    \/ stringContainsCTLByte(BeforeFragment(u))
    \/ unescapeFails(URLPath(u))
    \/ unescapeFails(RawFragmentOf(u))

\* setPath and setFragment: the decoded text, and the raw text when it is
\* not the default encoding of the decoded text
RawIfNotDefault(raw, mode) ==
    IF escape(unescape(raw, mode), mode) = raw THEN <<>> ELSE raw

\* url.Parse(u) for a u it accepts
ParseURL(u) ==
    [Path        |-> unescape(URLPath(u), "encodePath"),
     RawPath     |-> RawIfNotDefault(URLPath(u), "encodePath"),
     ForceQuery  |-> ForceQueryOf(u),
     RawQuery    |-> URLRawQuery(u),
     Fragment    |-> unescape(RawFragmentOf(u), "encodeFragment"),
     RawFragment |-> RawIfNotDefault(RawFragmentOf(u), "encodeFragment")]

\* EscapedPath and EscapedFragment: the raw text when it is a valid encoding
\* of the decoded text, the default encoding otherwise
EscapedForm(decoded, raw, mode) ==
    IF /\ raw # <<>>
       /\ validEncoded(raw, mode)
       /\ ~unescapeFails(raw)
       /\ unescape(raw, mode) = decoded
    THEN raw
    ELSE escape(decoded, mode)

EscapedPath(parsed) == EscapedForm(parsed.Path, parsed.RawPath, "encodePath")

EscapedFragment(parsed) ==
    EscapedForm(parsed.Fragment, parsed.RawFragment, "encodeFragment")

\* URL.String()
URLString(parsed) ==
    BaseURL \o EscapedPath(parsed)
    \o (IF parsed.ForceQuery \/ parsed.RawQuery # <<>>
        THEN <<"?">> \o parsed.RawQuery ELSE <<>>)
    \o (IF parsed.Fragment # <<>>
        THEN <<"#">> \o EscapedFragment(parsed) ELSE <<>>)

\* url.QueryEscape(s)
QueryEscape(s) == escape(s, "encodeQueryComponent")

\* URL.Query(): the pairs of the raw query in their order; a segment that is
\* empty, holds a ";" or does not unescape is skipped
RECURSIVE QueryPairs(_, _)
QueryPairs(segments, i) ==
    IF i > Len(segments) THEN <<>>
    ELSE LET seg == segments[i]
             key == CutBefore(seg, "=")
             value == CutAfter(seg, "=")
         IN  (IF \/ seg = <<>>
                 \/ IndexByte(seg, ";") # 0
                 \/ unescapeFails(key)
                 \/ unescapeFails(value)
              THEN <<>>
              ELSE <<<<unescape(key, "encodeQueryComponent"),
                       unescape(value, "encodeQueryComponent")>>>>)
             \o QueryPairs(segments, i + 1)

ParseQuery(rawQuery) ==
    IF rawQuery = <<>> THEN <<>> ELSE QueryPairs(Split(rawQuery, "&"), 1)

\* lines 108-119: the text added for a query parameter that is not nil
QueryValueText(h, v) ==
    CASE v.t = "string" -> v.s
      [] OTHER          -> Sprint(h, v)

\* lines 108-119: q.Add for every query parameter that is not nil; the new
\* keys are distinct, so the order of the range does not show in the result
RECURSIVE AddedPairs(_, _, _, _)
AddedPairs(h, id, keys, i) ==
    IF i > Len(keys) THEN <<>>
    ELSE <<<<keys[i], QueryValueText(h, h[id][keys[i]])>>>>
         \o AddedPairs(h, id, keys, i + 1)

\* Values.Encode(): the keys sorted, the values of a key in the order they
\* were added, key=value joined by "&"
RECURSIVE EncodePairs(_, _, _, _, _)
EncodePairs(pairs, keys, k, i, first) ==
    IF k > Len(keys) THEN <<>>
    ELSE IF i > Len(pairs) THEN EncodePairs(pairs, keys, k + 1, 1, first)
    ELSE IF pairs[i][1] = keys[k]
    THEN (IF first THEN <<>> ELSE <<"&">>)
         \o QueryEscape(pairs[i][1]) \o <<"=">> \o QueryEscape(pairs[i][2])
         \o EncodePairs(pairs, keys, k, i + 1, FALSE)
    ELSE EncodePairs(pairs, keys, k, i + 1, first)

Encode(pairs) ==
    EncodePairs(pairs, SortedKeys({pairs[i][1] : i \in DOMAIN pairs}), 1, 1, TRUE)

\* lines 107-120: the query of the parsed URL with the query parameters
\* added, encoded
EncodeQuery(h, id, parsed) ==
    Encode(ParseQuery(parsed.RawQuery)
           \o AddedPairs(h, id,
                         SortedKeys({k \in DOMAIN h[id] : h[id][k].t # "nil"}), 1))

\* ------------------------------------------------------------------
\* net/http
\* ------------------------------------------------------------------

\* the characters of an HTTP token
TokenChars ==
    UpperSet \cup LowerSet \cup DigitSet
    \cup {"!", "#", "$", "%", "&", "'", "*", "+", "-", ".", "^", "_", Backquote,
          "|", "~"}

IsTokenChar(c) == c \in TokenChars

\* http.NewRequestWithContext takes the empty method for GET and rejects a
\* method that is not a token
validMethod(m) == m = <<>> \/ \A i \in 1..Len(m) : IsTokenChar(m[i])

UpperChar(c) ==
    IF c \in LowerSet
    THEN UpperLetters[CHOOSE i \in 1..26 : LowerLetters[i] = c]
    ELSE c

\* textproto.CanonicalMIMEHeaderKey: a key of token characters gets an
\* upper-case first letter and an upper-case letter after each "-", the rest
\* lower case; any other key is left as it is
CanonicalMIMEHeaderKey(k) ==
    IF \A i \in 1..Len(k) : IsTokenChar(k[i])
    THEN [i \in 1..Len(k) |->
            IF i = 1 \/ k[i - 1] = "-" THEN UpperChar(k[i]) ELSE LowerChar(k[i])]
    ELSE k

\* Header.Set(key, value)
HeaderSet(header, key, value) == MapPut(header, CanonicalMIMEHeaderKey(key), value)

ContentTypeKey == <<"C","o","n","t","e","n","t","-","T","y","p","e">>

\* ------------------------------------------------------------------
\* States in which a component has not run
\* ------------------------------------------------------------------

SanIdle ==
    /\ sanPc = "in"
    /\ sanIn = <<>>
    /\ sanOut = <<>>
    /\ sanOut2 = <<>>

TrIdle ==
    /\ trPc = "idle"
    /\ trApi = "none"
    /\ trOrder = "none"
    /\ trTool = "none"

NilReader == [isNil |-> TRUE, bytes |-> <<>>]
NilRequest == [isNil |-> TRUE, Method |-> <<>>, URL |-> <<>>,
               Header |-> EmptyMap, Body |-> NilReader]
NilResponse == [isNil |-> TRUE, StatusCode |-> 0, Body |-> ""]
NoResult == [returned |-> FALSE, phase |-> "", text |-> "", err |-> "nil"]
NoArguments == [params |-> EmptyMap, maps |-> [id \in ArgMapIds |-> EmptyMap]]

\* no invocation of the handler is under way
CallIdle ==
    /\ hPc = "idle"
    /\ callArgs = NoArguments
    /\ params = EmptyMap
    /\ heap = [id \in ArgMapIds \cup NewMapIds |-> EmptyMap]
    /\ pathParams = "newPath"
    /\ queryParams = "newQuery"
    /\ bodyParams = "newBody"
    /\ pathTodo = {}
    /\ finalURL = <<>>
    /\ reqBody = NilReader
    /\ req = NilRequest
    /\ hdrTodo = {}
    /\ doCalls = 0
    /\ resp = NilResponse
    /\ result = NoResult

HIdle ==
    /\ method = <<>>
    /\ url = <<>>
    /\ extraHeaders = EmptyMap
    /\ CallIdle

\* ------------------------------------------------------------------
\* Specification of the sanitizer: a name is chosen, sanitized, and the
\* result is sanitized again.
\* ------------------------------------------------------------------

\* bytes of the names tried: a letter of each case, a digit, the underscore,
\* bytes of each replacement rule, a byte no rule mentions, the two bytes of
\* U+00C9, the three bytes of U+212A (whose lower case is k), and a byte that
\* occurs in no valid UTF-8
SanChars ==
    {"A", "b", "7", "_", " ", "-", "{", "&", "=", "%", "!",
     "\\xC3", "\\x89", "\\xE2", "\\x84", "\\xAA", "\\xFF"}

RECURSIVE StringsUpTo(_, _)
StringsUpTo(chars, n) ==
    IF n = 0 THEN {<<>>}
    ELSE LET shorter == StringsUpTo(chars, n - 1)
         IN  shorter \cup {Append(s, c) : s \in shorter, c \in chars}

SanNames == StringsUpTo(SanChars, MaxNameLen)

InitSan ==
    /\ sanPc = "in"
    /\ sanIn \in SanNames
    /\ sanOut = <<>>
    /\ sanOut2 = <<>>
    /\ TrIdle
    /\ HIdle

SanitizeOnce ==
    /\ sanPc = "in"
    /\ sanOut' = sanitizeToolName(sanIn)
    /\ sanPc' = "once"
    /\ UNCHANGED <<sanIn, sanOut2, trVars, hVars>>

SanitizeTwice ==
    /\ sanPc = "once"
    /\ sanOut2' = sanitizeToolName(sanOut)
    /\ sanPc' = "twice"
    /\ UNCHANGED <<sanIn, sanOut, trVars, hVars>>

NextSan == SanitizeOnce \/ SanitizeTwice

SpecSan == InitSan /\ [][NextSan]_vars

\* C6: whatever the input, the sanitized name consists of lowercase ASCII
\* letters, digits and underscores only, neither starts nor ends with an
\* underscore, holds no two consecutive underscores and is not empty.
C6_SanitizedShape ==
    sanPc # "in" =>
        /\ \A i \in 1..Len(sanOut) :
              sanOut[i] \in LowerSet \cup DigitSet \cup {"_"}
        /\ sanOut # <<>>
        /\ sanOut[1] # "_"
        /\ sanOut[Len(sanOut)] # "_"
        /\ ~Contains(sanOut, <<"_", "_">>)

\* C8: sanitizing a sanitized name changes nothing.
C8_Idempotent == sanPc = "twice" => sanOut2 = sanOut

\* a name the replacement rules, the collapsing and the trimming all changed
\* has been sanitized twice
C8_Witness ==
    /\ sanPc = "twice"
    /\ sanIn = <<" ", "=", "A">>
    /\ sanOut = <<"e", "q", "_", "a">>
    /\ sanOut2 = sanOut


\* ------------------------------------------------------------------
\* Specification of the translator: operation descriptors are translated
\* one after the other.
\* ------------------------------------------------------------------

\* a schema with the type alone, and one with optional fields set
PlainSchema == [Type |-> "string", Description |-> <<>>, Enum |-> "nil",
                Format |-> "", Default |-> "nil", Items |-> "nil",
                Properties |-> "nil"]
RichSchema  == [Type |-> "integer", Description |-> <<>>, Enum |-> "enum",
                Format |-> "int64", Default |-> "default", Items |-> "nil",
                Properties |-> "nil"]

ParamNameId == <<"i", "d">>
ParamNameQ  == <<"q">>
PlainDesc   == <<"d">>
MarkedDesc  == RequiredMarker \o <<" ", "d">>

\* path and query parameters of either name, and one header parameter
ParamDescriptors ==
    {[Name |-> n, In |-> l, Required |-> r, Description |-> d,
      Schema |-> IF n = ParamNameId THEN RichSchema ELSE PlainSchema] :
        n \in {ParamNameId, ParamNameQ}, l \in {"path", "query"},
        r \in BOOLEAN, d \in {PlainDesc, MarkedDesc}}
    \cup {[Name |-> ParamNameQ, In |-> "header", Required |-> TRUE,
           Description |-> PlainDesc, Schema |-> PlainSchema]}

RECURSIVE SeqsUpTo(_, _)
SeqsUpTo(S, n) ==
    IF n = 0 THEN {<<>>}
    ELSE LET shorter == SeqsUpTo(S, n - 1)
         IN  shorter \cup {Append(s, x) : s \in {q \in shorter : Len(q) = n - 1}, x \in S}

PropN == <<"n">>
PropM == <<"m">>
PropSchemaN == [PlainSchema EXCEPT !.Description = PlainDesc]
PropSchemaM == [RichSchema EXCEPT !.Description = MarkedDesc]
NilSchema == [isNil |-> TRUE, Properties |-> EmptyMap, Required |-> <<>>]

BodySchemas ==
    {NilSchema}
    \cup {[isNil |-> FALSE, Properties |-> props, Required |-> required] :
            props \in {EmptyMap,
                       [k \in {PropN} |-> PropSchemaN],
                       [k \in {PropN, PropM} |->
                            IF k = PropN THEN PropSchemaN ELSE PropSchemaM]},
            required \in {<<>>, <<PropN>>, <<PropM, PropN>>}}

MediaTypes == {"application/json", "application/xml"}

\* the second media type declares n alone, required or not, or no schema
XmlSchemas ==
    {NilSchema}
    \cup {[isNil |-> FALSE, Properties |-> [k \in {PropN} |-> PropSchemaM],
           Required |-> required] : required \in {<<>>, <<PropN>>}}

RequestBodies ==
    {[isNil |-> TRUE, Content |-> EmptyMap]}
    \cup {[isNil |-> FALSE, Content |-> [m \in ms |-> [Schema |-> schemas[m]]]] :
            ms \in SUBSET MediaTypes,
            schemas \in {f \in [MediaTypes -> BodySchemas \cup XmlSchemas] :
                            /\ f["application/json"] \in BodySchemas
                            /\ f["application/xml"] \in XmlSchemas}}

ApiTitle == <<"M", "y", " ", "A", "P", "I">>
OperationIDs == {<<"g","e","t","U","s","e","r">>, <<"G","e","t"," ","{","i","d","}">>}

ApiDescriptors ==
    {[OperationID |-> id, Summary |-> <<"s">>, Description |-> <<>>,
      Parameters |-> ps, RequestBody |-> rb] :
        id \in OperationIDs, ps \in SeqsUpTo(ParamDescriptors, MaxParams),
        rb \in RequestBodies}

\* the orders in which the body loops may range over api's maps
RangeOrders(api) ==
    {[media |-> mo, props |-> po] :
        mo \in Perms(DOMAIN api.RequestBody.Content),
        po \in {f \in [DOMAIN api.RequestBody.Content ->
                          UNION {Perms(DOMAIN api.RequestBody.Content[m].Schema.Properties) :
                                    m \in DOMAIN api.RequestBody.Content}] :
                   \A m \in DOMAIN api.RequestBody.Content :
                      f[m] \in Perms(DOMAIN api.RequestBody.Content[m].Schema.Properties)}}

InitTr ==
    /\ trPc = "parsed"
    /\ trApi \in ApiDescriptors
    /\ trOrder = "none"
    /\ trTool = "none"
    /\ SanIdle
    /\ HIdle

AddTool ==
    /\ trPc = "parsed"
    /\ \E order \in RangeOrders(trApi) :
        /\ trOrder' = order
        /\ trTool' = translateApi(sanitizeToolName(ApiTitle), trApi, order)
    /\ trPc' = "added"
    /\ UNCHANGED <<trApi, sanVars, hVars>>

NextTr == AddTool

SpecTr == InitTr /\ [][NextTr]_vars

\* the Required flag of the last parameter of the list stored under name in
\* the group of location loc
LastParamRequired(parameters, loc, name) ==
    LET idx == {i \in 1..Len(parameters) :
                   parameters[i].In = loc /\ parameters[i].Name = name}
        last == CHOOSE i \in idx : \A j \in idx : j <= i
    IN  parameters[last].Required

\* whether the media type visited last among those declaring name lists it
\* as required
LastMediaRequired(content, order, name) ==
    LET idx == {i \in 1..Len(order.media) :
                   /\ ~content[order.media[i]].Schema.isNil
                   /\ name \in DOMAIN content[order.media[i]].Schema.Properties}
        last == CHOOSE i \in idx : \A j \in idx : j <= i
    IN  isRequiredField(name, content[order.media[last]].Schema.Required)

GroupSourceRequired(g, name) ==
    IF g = RequestBodyKey
    THEN LastMediaRequired(trApi.RequestBody.Content, trOrder, name)
    ELSE LastParamRequired(trApi.Parameters,
                           IF g = PathNamesKey THEN "path" ELSE "query", name)

\* C4: a registered tool carries a group only if the group has at least one
\* property; a request body that yields no property yields no requestBody
\* group.
C4_NoEmptyGroup ==
    trPc = "added" =>
        \A g \in DOMAIN trTool.properties :
            DOMAIN trTool.properties[g].properties # {}

\* C9: in every group of a registered tool the required list has no
\* duplicate, lists only names of the group's properties, and lists a name
\* exactly when the descriptor whose property was stored last under that name
\* was required, in which case the stored description carries the marker.
C9_RequiredConsistent ==
    trPc = "added" =>
        \A g \in DOMAIN trTool.properties :
            LET group == trTool.properties[g]
                required == group.required
            IN  /\ \A i, j \in 1..Len(required) : i # j => required[i] # required[j]
                /\ \A i \in 1..Len(required) :
                      required[i] \in DOMAIN group.properties
                /\ \A name \in DOMAIN group.properties :
                      (name \in Range(required)) <=> GroupSourceRequired(g, name)
                /\ \A i \in 1..Len(required) :
                      HasPrefix(group.properties[required[i]]["description"],
                                RequiredMarker)


\* ------------------------------------------------------------------
\* The handler returned by NewToolHandler, statement by statement
\* ------------------------------------------------------------------

Placeholder(paramName) == <<"{">> \o paramName \o <<"}">>

\* lines 64-72: the map each parameter set refers to after the three type
\* assertions: the nested map of the arguments, or the map of make()
GroupRef(key, argId, newId) == IF IsMapAt(params, key) THEN argId ELSE newId

\* line 74
usesLegacy(h, pp, qp, bp) ==
    /\ Cardinality(DOMAIN h[pp]) = 0
    /\ Cardinality(DOMAIN h[qp]) = 0
    /\ Cardinality(DOMAIN h[bp]) = 0

\* a placeholder written without its braces never occurs in a template path
legacyNeverPath(paramName) == FALSE

\* line 77
legacyIsPath(paramName) == Contains(url, Placeholder(paramName))

\* lines 75-82: every top-level key is stored in the path map or the body map
legacyLoop(h, pp, bp) ==
    LET inPath == {k \in DOMAIN params : legacyIsPath(k)}
        inBody == (DOMAIN params) \ inPath
        store(m, keys) == [k \in (DOMAIN m) \cup keys |->
                             IF k \in keys THEN params[k] ELSE m[k]]
    IN  [id \in DOMAIN h |->
            IF id = pp THEN store(h[id], inPath)
            ELSE IF id = bp THEN store(h[id], inBody)
            ELSE h[id]]

\* the transport calls the handler with deserialized arguments
Call(args) ==
    /\ hPc = "idle"
    /\ callArgs' = args
    /\ params' = args.params
    /\ heap' = [id \in ArgMapIds \cup NewMapIds |->
                  IF id \in ArgMapIds THEN args.maps[id] ELSE EmptyMap]
    /\ hPc' = "called"
    /\ UNCHANGED <<pathParams, queryParams, bodyParams, pathTodo, finalURL,
                   reqBody, req, hdrTodo, doCalls, resp, result>>

\* lines 59-85
Classify ==
    /\ UNCHANGED others
    /\ hPc = "called"
    /\ LET pp == GroupRef(PathNamesKey, "pathNames", "newPath")
           qp == GroupRef(SearchParamsKey, "searchParams", "newQuery")
           bp == GroupRef(RequestBodyKey, "requestBody", "newBody")
           h == IF usesLegacy(heap, pp, qp, bp) THEN legacyLoop(heap, pp, bp) ELSE heap
       IN  /\ pathParams' = pp
           /\ queryParams' = qp
           /\ bodyParams' = bp
           /\ heap' = h
           /\ pathTodo' = DOMAIN h[pp]
    /\ finalURL' = url
    /\ hPc' = "path"
    /\ UNCHANGED <<callArgs, params, reqBody, req, hdrTodo, doCalls, resp, result>>

\* lines 86-100, one iteration of the range over pathParams: the keys are
\* visited in an order the runtime chooses
SubstitutePath ==
    /\ UNCHANGED others
    /\ hPc = "path"
    /\ \E paramName \in pathTodo :
        LET paramValue == heap[pathParams][paramName]
        IN  /\ pathTodo' = pathTodo \ {paramName}
            /\ IF ~Contains(finalURL, Placeholder(paramName))
               THEN UNCHANGED <<finalURL, hPc>>
               ELSE IF SprintOverflows(heap, paramValue)
               THEN /\ hPc' = "crashed"
                    /\ UNCHANGED finalURL
               ELSE /\ finalURL' = ReplaceAll(finalURL, Placeholder(paramName),
                                              PathValueText(heap, paramValue))
                    /\ UNCHANGED hPc
    /\ UNCHANGED <<callArgs, params, heap, pathParams, queryParams, bodyParams,
                   reqBody, req, hdrTodo, doCalls, resp, result>>

\* mcp.NewToolResultText(text), nil
ReturnText(phase, text) ==
    /\ result' = [returned |-> TRUE, phase |-> phase, text |-> text, err |-> "nil"]
    /\ hPc' = "done"

\* lines 102-122
AddQuery ==
    /\ UNCHANGED others
    /\ hPc = "path"
    /\ pathTodo = {}
    /\ IF Cardinality(DOMAIN heap[queryParams]) > 0
       THEN IF ParseFails(finalURL)
            THEN /\ ReturnText("parse", "Error parsing URL: ")
                 /\ UNCHANGED finalURL
            ELSE /\ finalURL' =
                      LET parsedURL == ParseURL(finalURL)
                          q == EncodeQuery(heap, queryParams, parsedURL)
                      IN  URLString([parsedURL EXCEPT !.RawQuery = q])
                 /\ hPc' = "marshal"
                 /\ UNCHANGED result
       ELSE /\ hPc' = "marshal"
            /\ UNCHANGED <<finalURL, result>>
    /\ UNCHANGED <<callArgs, params, heap, pathParams, queryParams, bodyParams,
                   pathTodo, reqBody, req, hdrTodo, doCalls, resp>>

\* lines 124-131
MarshalBody ==
    /\ UNCHANGED others
    /\ hPc = "marshal"
    /\ IF Cardinality(DOMAIN heap[bodyParams]) > 0
       THEN IF MarshalFails(heap, bodyParams, {})
            THEN /\ ReturnText("marshal", "Error marshaling body parameters: ")
                 /\ UNCHANGED reqBody
            ELSE /\ reqBody' = [isNil |-> FALSE, bytes |-> MarshalMap(heap, bodyParams)]
                 /\ hPc' = "create"
                 /\ UNCHANGED result
       ELSE /\ hPc' = "create"
            /\ UNCHANGED <<reqBody, result>>
    /\ UNCHANGED <<callArgs, params, heap, pathParams, queryParams, bodyParams,
                   pathTodo, finalURL, req, hdrTodo, doCalls, resp>>

\* the header of a request that always declares a JSON body
contentTypeAlways(body) == HeaderSet(EmptyMap, ContentTypeKey, "application/json")

\* lines 138-140: the header of the new request
contentTypeFor(body) ==
    IF ~body.isNil
    THEN HeaderSet(EmptyMap, ContentTypeKey, "application/json")
    ELSE EmptyMap

\* lines 133-140
NewRequest ==
    /\ UNCHANGED others
    /\ hPc = "create"
    /\ IF ~validMethod(method) \/ ParseFails(finalURL)
       THEN /\ ReturnText("create", "Error creating request: ")
            /\ UNCHANGED <<req, hdrTodo>>
       ELSE /\ req' = [isNil |-> FALSE,
                       Method |-> IF method = <<>> THEN <<"G", "E", "T">> ELSE method,
                       URL |-> finalURL,
                       Header |-> contentTypeFor(reqBody),
                       Body |-> reqBody]
            /\ hdrTodo' = DOMAIN extraHeaders
            /\ hPc' = "headers"
            /\ UNCHANGED result
    /\ UNCHANGED <<callArgs, params, heap, pathParams, queryParams, bodyParams,
                   pathTodo, finalURL, reqBody, doCalls, resp>>

\* lines 141-143, one iteration of the range over extraHeaders
SetExtraHeader ==
    /\ UNCHANGED others
    /\ hPc = "headers"
    /\ \E key \in hdrTodo :
        /\ req' = [req EXCEPT !.Header = HeaderSet(@, key, extraHeaders[key])]
        /\ hdrTodo' = hdrTodo \ {key}
    /\ UNCHANGED <<hPc, callArgs, params, heap, pathParams, queryParams, bodyParams,
                   pathTodo, finalURL, reqBody, doCalls, resp, result>>

\* what the HTTP endpoint may answer
Responses ==
    {[isNil |-> FALSE, StatusCode |-> 200, Body |-> "{\"ok\":true}"],
     [isNil |-> FALSE, StatusCode |-> 404, Body |-> "{\"error\":\"not found\"}"],
     [isNil |-> FALSE, StatusCode |-> 500, Body |-> ""]}

\* lines 145-150: client.Do(req) fails or returns a response
DoRequest ==
    /\ UNCHANGED others
    /\ hPc = "headers"
    /\ hdrTodo = {}
    /\ doCalls' = doCalls + 1
    /\ \/ /\ ReturnText("execute", "Error executing request: ")
          /\ UNCHANGED resp
       \/ /\ resp' \in Responses
          /\ hPc' = "read"
          /\ UNCHANGED result
    /\ UNCHANGED <<callArgs, params, heap, pathParams, queryParams, bodyParams,
                   pathTodo, finalURL, reqBody, req, hdrTodo>>

\* lines 152-157: io.ReadAll(resp.Body) fails or returns the body
ReadBody ==
    /\ UNCHANGED others
    /\ hPc = "read"
    /\ \/ ReturnText("read", "Error reading response: ")
       \/ ReturnText("ok", resp.Body)
    /\ UNCHANGED <<callArgs, params, heap, pathParams, queryParams, bodyParams,
                   pathTodo, finalURL, reqBody, req, hdrTodo, doCalls, resp>>

\* the transport takes the result; the handler can be called again
Return ==
    /\ UNCHANGED others
    /\ hPc = "done"
    /\ hPc' = "idle"
    /\ callArgs' = NoArguments
    /\ params' = EmptyMap
    /\ heap' = [id \in ArgMapIds \cup NewMapIds |-> EmptyMap]
    /\ pathParams' = "newPath"
    /\ queryParams' = "newQuery"
    /\ bodyParams' = "newBody"
    /\ pathTodo' = {}
    /\ finalURL' = <<>>
    /\ reqBody' = NilReader
    /\ req' = NilRequest
    /\ hdrTodo' = {}
    /\ doCalls' = 0
    /\ resp' = NilResponse
    /\ result' = NoResult

\* ------------------------------------------------------------------
\* Specification of the handler: NewToolHandler has captured a method, a
\* URL and the extra headers; the transport calls the handler again and
\* again.
\* ------------------------------------------------------------------

KeyA == <<"a">>
KeyB == <<"b">>
KeyN == <<"n">>
KeyQ == <<"q">>
KeyK == <<"k">>

\* a method, and a string that is not a token
Methods == {<<"P", "O", "S", "T">>, <<"P", " ", "T">>}

\* the second template has a query of its own: ?k=1&x
URLTemplates ==
    {BaseURL \o <<"/", "u", "/">> \o Placeholder(KeyA),
     BaseURL \o <<"/">> \o Placeholder(KeyA) \o <<"/">> \o Placeholder(KeyB)
             \o <<"?", "k", "=", "1", "&", "x">>,
     BaseURL \o <<"/">> \o Placeholder(PathNamesKey)}

LowerContentTypeKey == <<"c","o","n","t","e","n","t","-","t","y","p","e">>
ApiKeyHeader == <<"X","-","A","p","i","-","K","e","y">>

ExtraHeaderMaps ==
    {EmptyMap,
     [k \in {ApiKeyHeader} |-> "secret"],
     [k \in {ApiKeyHeader, LowerContentTypeKey} |->
        IF k = ApiKeyHeader THEN "secret" ELSE "text/plain"],
     [k \in {ContentTypeKey, LowerContentTypeKey} |->
        IF k = ContentTypeKey THEN "text/xml" ELSE "text/plain"]}

\* a group key of the arguments: absent, a string, or a nested map
Absent == [kind |-> "absent", m |-> EmptyMap]
Scalar == [kind |-> "scalar", m |-> EmptyMap]
Nested(m) == [kind |-> "map", m |-> m]

PathGroups ==
    {Absent, Scalar, Nested(EmptyMap)}
    \cup {Nested([k \in {KeyA} |-> v]) :
            v \in {StrV(Placeholder(KeyB)), NilV, NumV(1000000), StrV(<<"%">>)}}
    \cup {Nested([k \in {KeyA, KeyB} |->
                    IF k = KeyA THEN va ELSE StrV(<<"y">>)]) :
            va \in {StrV(<<"%", "4", "1", "?">>), StrV(Placeholder(KeyB))}}

QueryGroups ==
    {Absent, Nested(EmptyMap),
     Nested([k \in {KeyQ} |-> NilV]),
     Nested([k \in {KeyQ} |-> StrV(<<"x", " ", "=", "y">>)]),
     Nested([k \in {KeyQ, KeyK} |-> IF k = KeyQ THEN NilV ELSE NumV(7)])}

BodyGroups ==
    {Absent, Nested(EmptyMap),
     Nested([k \in {KeyN} |-> StrV(<<"\"", "<", "\\xE2", "\\x80", "\\xA8">>)]),
     Nested([k \in {KeyN} |-> NaNV])}

\* a top-level value that holds a "?": x?y=1
QueryLikeValue == StrV(<<"x", "?", "y", "=", "1">>)

\* top-level keys that are not group keys
FlatArguments ==
    {[k \in ks |-> IF k = KeyA THEN va ELSE StrV(<<"x">>)] :
        ks \in SUBSET {KeyA, KeyN}, va \in {NumV(42), QueryLikeValue}}

GroupValue(group, id) == IF group.kind = "map" THEN MapV(id) ELSE StrV(<<"x">>)

MakeArguments(flat, pg, qg, bg) ==
    LET groupKeys ==
            (IF pg.kind # "absent" THEN {PathNamesKey} ELSE {})
            \cup (IF qg.kind # "absent" THEN {SearchParamsKey} ELSE {})
            \cup (IF bg.kind # "absent" THEN {RequestBodyKey} ELSE {})
    IN  [params |->
            [k \in (DOMAIN flat) \cup groupKeys |->
                IF k = PathNamesKey THEN GroupValue(pg, "pathNames")
                ELSE IF k = SearchParamsKey THEN GroupValue(qg, "searchParams")
                ELSE IF k = RequestBodyKey THEN GroupValue(bg, "requestBody")
                ELSE flat[k]],
         maps |->
            [id \in ArgMapIds |->
                IF id = "pathNames" THEN pg.m
                ELSE IF id = "searchParams" THEN qg.m
                ELSE bg.m]]

Arguments ==
    {MakeArguments(flat, pg, qg, bg) :
        flat \in FlatArguments, pg \in PathGroups, qg \in QueryGroups,
        bg \in BodyGroups}

Init ==
    /\ method \in Methods
    /\ url \in URLTemplates
    /\ extraHeaders \in ExtraHeaderMaps
    /\ CallIdle
    /\ SanIdle
    /\ TrIdle

Invoke ==
    /\ \E args \in Arguments : Call(args)
    /\ UNCHANGED others

Next ==
    \/ Invoke
    \/ Classify
    \/ SubstitutePath
    \/ AddQuery
    \/ MarshalBody
    \/ NewRequest
    \/ SetExtraHeader
    \/ DoRequest
    \/ ReadBody
    \/ Return

Spec == Init /\ [][Next]_vars

\* ------------------------------------------------------------------
\* Properties of the handler
\* ------------------------------------------------------------------

\* the parameter sets have been chosen
Classified == hPc \in {"path", "marshal", "create", "headers", "read", "done", "crashed"}

\* at least one group key of the arguments passed holds a nested map
HasGroupMap ==
    \E key \in {PathNamesKey, SearchParamsKey, RequestBodyKey} :
        IsMapAt(callArgs.params, key)

\* the nested map passed under key, the empty set when there is none
GroupPassed(key, id) ==
    IF IsMapAt(callArgs.params, key) THEN callArgs.maps[id] ELSE EmptyMap

\* C1: when a group key holds a nested map, be it empty, the path, query and
\* body parameter sets are the nested maps passed (a missing group is the
\* empty set) and no top-level key is classified by the legacy rule.
C1_GroupedClassification ==
    (Classified /\ HasGroupMap) =>
        /\ heap[pathParams] = GroupPassed(PathNamesKey, "pathNames")
        /\ heap[queryParams] = GroupPassed(SearchParamsKey, "searchParams")
        /\ heap[bodyParams] = GroupPassed(RequestBodyKey, "requestBody")

\* C2: every invocation ends by returning a text result and a nil error: the
\* response body after a completed exchange, a message naming the phase
\* after a failure; client.Do is called at most once, and not at all when an
\* earlier phase fails.
C2_AlwaysTextResult ==
    /\ hPc # "crashed"
    /\ doCalls <= 1
    /\ hPc = "done" =>
        /\ result.returned
        /\ result.err = "nil"
        /\ result.phase = "ok" => (result.text = resp.Body /\ doCalls = 1)
        /\ result.phase = "parse" =>
              (result.text = "Error parsing URL: " /\ doCalls = 0)
        /\ result.phase = "marshal" =>
              (result.text = "Error marshaling body parameters: " /\ doCalls = 0)
        /\ result.phase = "create" =>
              (result.text = "Error creating request: " /\ doCalls = 0)
        /\ result.phase = "execute" => result.text = "Error executing request: "
        /\ result.phase = "read" => result.text = "Error reading response: "

\* the template with every placeholder of a path parameter replaced, in one
\* pass from left to right, by the text of that parameter's value
RECURSIVE SubstituteFrom(_, _, _)
SubstituteFrom(template, pmap, i) ==
    IF i > Len(template) THEN <<>>
    ELSE IF \E k \in DOMAIN pmap : MatchAt(template, Placeholder(k), i)
    THEN LET k == CHOOSE x \in DOMAIN pmap : MatchAt(template, Placeholder(x), i)
         IN  PathValueText(heap, pmap[k])
             \o SubstituteFrom(template, pmap, i + Len(Placeholder(k)))
    ELSE <<template[i]>> \o SubstituteFrom(template, pmap, i + 1)

\* C3: once the path parameters are processed, whatever the order, the URL is
\* the template with each placeholder of a path parameter replaced by the
\* text of its value and every other placeholder left as it is.
C3_PathResolution ==
    (hPc = "path" /\ pathTodo = {}) =>
        finalURL = SubstituteFrom(url, heap[pathParams], 1)

\* the top-level keys passed whose placeholder occurs in the template
PlaceholderKeys ==
    {k \in DOMAIN callArgs.params : Contains(url, Placeholder(k))}

\* the classification of C5: when no group key holds a nested map, the path
\* parameters are the top-level keys whose placeholder occurs in the
\* template, the body parameters are all the other top-level keys, and there
\* is no query parameter
LegacySets ==
    (Classified /\ ~HasGroupMap) =>
        /\ heap[pathParams] = [k \in PlaceholderKeys |-> callArgs.params[k]]
        /\ heap[bodyParams] =
              [k \in (DOMAIN callArgs.params) \ PlaceholderKeys |-> callArgs.params[k]]
        /\ heap[queryParams] = EmptyMap

\* C5 as stated: when no group key holds a nested map, the path parameters
\* are the top-level keys whose placeholder occurs in the template, the body
\* parameters are all the other top-level keys, there is no query parameter,
\* and the URL of the request gains no query string from the arguments: its
\* query string is that of the template.
C5_LegacyClassification ==
    /\ LegacySets
    /\ (Classified /\ ~HasGroupMap) =>
          /\ URLRawQuery(finalURL) = URLRawQuery(url)
          /\ ~req.isNil => URLRawQuery(req.URL) = URLRawQuery(url)

\* path substitution is over and the invocation has not returned
Substituted ==
    \/ hPc = "path" /\ pathTodo = {}
    \/ hPc \in {"marshal", "create", "headers", "read"}

\* C5 (amended): when no group key holds a nested map, the path parameters
\* are the top-level keys whose placeholder occurs in the template, the body
\* parameters are all the other top-level keys, there is no query parameter,
\* and the query step adds nothing: no step after path substitution changes
\* the URL, and the request is made for the URL that path substitution left.
C5_LegacyNoQueryAdded ==
    /\ []LegacySets
    /\ []((Classified /\ ~HasGroupMap /\ ~req.isNil) => req.URL = finalURL)
    /\ [][(Substituted /\ ~HasGroupMap) => finalURL' = finalURL]_vars

\* flat arguments with a path key and a body key have been turned into a
\* request; the value of the path key has brought a "?" into the URL
C5_Witness ==
    /\ hPc = "headers"
    /\ ~HasGroupMap
    /\ heap[pathParams] = [k \in {KeyA} |-> QueryLikeValue]
    /\ DOMAIN heap[bodyParams] = {KeyN, PathNamesKey}
    /\ req.URL = BaseURL \o <<"/", "u", "/", "x", "?", "y", "=", "1">>

\* the extra headers whose key has the canonical form of key
SameHeader(key) ==
    {k \in DOMAIN extraHeaders :
        CanonicalMIMEHeaderKey(k) = CanonicalMIMEHeaderKey(key)}

\* the request as NewRequestWithContext and the body step leave it
BeforeExtraHeaders == hPc = "headers" /\ hdrTodo = DOMAIN extraHeaders

\* every extra header has been applied
AfterExtraHeaders == ~req.isNil /\ hdrTodo = {}

\* the first half of C7: Content-Type and payload follow the body
BodyHeader ==
    BeforeExtraHeaders =>
        IF DOMAIN heap[bodyParams] # {}
        THEN /\ req.Header = [k \in {ContentTypeKey} |-> "application/json"]
             /\ ~req.Body.isNil
             /\ req.Body.bytes = MarshalMap(heap, bodyParams)
        ELSE /\ req.Header = EmptyMap
             /\ req.Body.isNil

\* C7 as stated: before the extra headers are applied the request carries
\* Content-Type: application/json and the JSON payload exactly when there are
\* body parameters; after they are applied, every configured extra header is
\* on the request with its configured value.
C7_EveryExtraHeaderPresent ==
    /\ BodyHeader
    /\ AfterExtraHeaders =>
          \A key \in DOMAIN extraHeaders :
              /\ CanonicalMIMEHeaderKey(key) \in DOMAIN req.Header
              /\ req.Header[CanonicalMIMEHeaderKey(key)] = extraHeaders[key]

\* C7 (amended): before the extra headers are applied the request carries
\* Content-Type: application/json and the JSON payload exactly when there are
\* body parameters; after they are applied, every configured extra header is
\* on the request, under its canonical name, with the value configured for
\* one of the keys of that canonical name: its own when no other configured
\* key differs from it by case alone.
C7_ExtraHeadersCanonical ==
    /\ BodyHeader
    /\ AfterExtraHeaders =>
          \A key \in DOMAIN extraHeaders :
              /\ CanonicalMIMEHeaderKey(key) \in DOMAIN req.Header
              /\ req.Header[CanonicalMIMEHeaderKey(key)]
                     \in {extraHeaders[k] : k \in SameHeader(key)}

\* a configured content-type has replaced the one the body step set
C7_Witness ==
    /\ hPc = "headers"
    /\ hdrTodo = {}
    /\ ~req.Body.isNil
    /\ DOMAIN extraHeaders = {ApiKeyHeader, LowerContentTypeKey}
    /\ req.Header[ContentTypeKey] = "text/plain"
    /\ req.Header[ApiKeyHeader] = "secret"

\* C10: while an invocation runs, the argument map and the nested maps under
\* pathNames, searchParams and requestBody are as the caller passed them.
C10_ArgumentsUnchanged ==
    hPc # "idle" =>
        /\ params = callArgs.params
        /\ \A id \in ArgMapIds : heap[id] = callArgs.maps[id]

====
